---- MODULE Spec2Model ----
(***************************************************************************)
(* tree2f: the tree-text parser (parseTree), the format command and the    *)
(* command-line driver (main, getInput, Commands) of src/index.js.         *)
(*                                                                         *)
(* src/index.js holds two revisions of the program one after the other:    *)
(* lines 1-197 (called revision "A" here: slash-aware file detection,      *)
(* path-based format) and lines 199-357 (revision "B": extname-only file   *)
(* detection, depth-based format).  The variable `variant` says which one  *)
(* runs.                                                                   *)
(*                                                                         *)
(* A JavaScript string is a sequence of one-character strings.  The four   *)
(* box-drawing characters are written by their code points.                *)
(***************************************************************************)
EXTENDS Integers, Sequences, FiniteSets, TLC

VARIABLES
    variant,     \* "A" or "B": which revision of src/index.js runs
    text,        \* parseTree's argument text
    baseDir,     \* parseTree's argument baseDir
    lines,       \* parseTree: the non-blank lines
    indentUnit,  \* parseTree (revision A): the detected indentation unit
    i,           \* parseTree: index of the next line of the forEach
    results,     \* parseTree: the nodes emitted so far
    stack,       \* parseTree: the open ancestors, as indices into results
    out,         \* the lines written to stdout by format/minify/dry-run
    pc,          \* the position of the program
    fs,          \* the filesystem: path -> [kind, content]
    flags,       \* the parsed command line of the running process
    j,           \* create: index of the next node of the forEach
    log,         \* the messages written by Log.* in this process
    exitCode,    \* the exit code of the process (-1 while it runs)
    runs,        \* number of processes started so far
    prev         \* outcome of the previous process (the shell's history)

parserVars == <<variant, text, baseDir, lines, indentUnit, i, results, stack, out>>
cliVars == <<fs, flags, j, log, exitCode, runs, prev>>
vars == <<variant, text, baseDir, lines, indentUnit, i, results, stack, out, pc,
          fs, flags, j, log, exitCode, runs, prev>>

----------------------------------------------------------------------------
(* Characters *)

VBAR == "U2502"
TEE == "U251C"
DASH == "U2500"
ELBOW == "U2514"

\* \s of the regular expressions (the inputs use the space only; "\n" never
\* occurs inside a line)
Whitespace == {" ", "\t", "\n", "\r"}

\* the character class [│├──└──]
Glyphs == {VBAR, TEE, DASH, ELBOW}

\* the character class [\s│] of the indent-unit pass
UnitClass == Whitespace \cup {VBAR}

\* the character class [\s│├──└──] of the depth pass
IndentClass == Whitespace \cup Glyphs

----------------------------------------------------------------------------
(* String helpers: String.prototype.split, trim, startsWith, endsWith,     *)
(* repeat, the match of /^[class]+/ and the replace of /[class]/g          *)

Max(a, b) == IF a >= b THEN a ELSE b

RECURSIVE Split(_, _)
Split(s, sep) ==
    IF \A k \in 1..Len(s) : s[k] # sep
    THEN <<s>>
    ELSE LET k == CHOOSE m \in 1..Len(s) :
                      s[m] = sep /\ \A q \in 1..(m - 1) : s[q] # sep
         IN <<SubSeq(s, 1, k - 1)>> \o Split(SubSeq(s, k + 1, Len(s)), sep)

RECURSIVE Join(_, _)
Join(ss, sep) ==
    IF Len(ss) = 0 THEN <<>>
    ELSE IF Len(ss) = 1 THEN ss[1]
    ELSE ss[1] \o <<sep>> \o Join(Tail(ss), sep)

\* length of the match of /^[class]+/ (0 when there is no match)
LeadingRun(s, class) ==
    IF \A k \in 1..Len(s) : s[k] \in class
    THEN Len(s)
    ELSE (CHOOSE m \in 1..Len(s) :
              s[m] \notin class /\ \A q \in 1..(m - 1) : s[q] \in class) - 1

TrailingRun(s, class) ==
    IF \A k \in 1..Len(s) : s[k] \in class
    THEN Len(s)
    ELSE Len(s) - (CHOOSE m \in 1..Len(s) :
              s[m] \notin class /\ \A q \in (m + 1)..Len(s) : s[q] \in class)

Trim(s) ==
    IF \A k \in 1..Len(s) : s[k] \in Whitespace
    THEN <<>>
    ELSE SubSeq(s, LeadingRun(s, Whitespace) + 1, Len(s) - TrailingRun(s, Whitespace))

RemoveAll(s, class) == SelectSeq(s, LAMBDA c : c \notin class)

StartsWith(s, p) == Len(p) <= Len(s) /\ SubSeq(s, 1, Len(p)) = p

EndsWith(s, c) == Len(s) > 0 /\ s[Len(s)] = c

Includes(s, c) == \E k \in 1..Len(s) : s[k] = c

RECURSIVE Repeat(_, _)
Repeat(s, n) == IF n <= 0 THEN <<>> ELSE s \o Repeat(s, n - 1)

----------------------------------------------------------------------------
(* Node's path module (POSIX): resolve, extname, dirname                   *)

\* process.cwd()
Cwd == <<"/", "c", "w", "d">>

\* normalizeString: "" and "." segments vanish, ".." removes the segment
\* before it (and stays at the root)
RECURSIVE NormalizeSegs(_, _)
NormalizeSegs(segs, acc) ==
    IF Len(segs) = 0 THEN acc
    ELSE LET s == Head(segs)
         IN IF s = <<>> \/ s = <<".">>
            THEN NormalizeSegs(Tail(segs), acc)
            ELSE IF s = <<".", ".">>
            THEN NormalizeSegs(Tail(segs),
                               IF Len(acc) = 0 THEN acc ELSE SubSeq(acc, 1, Len(acc) - 1))
            ELSE NormalizeSegs(Tail(segs), Append(acc, s))

\* path.resolve(from, to): the rightmost absolute argument wins, the
\* working directory is prepended when neither is absolute
Resolve(from, to) ==
    LET joined == IF Len(to) > 0 /\ to[1] = "/" THEN to
                  ELSE IF Len(from) > 0 /\ from[1] = "/" THEN from \o <<"/">> \o to
                  ELSE Cwd \o <<"/">> \o from \o <<"/">> \o to
    IN <<"/">> \o Join(NormalizeSegs(Split(joined, "/"), <<>>), "/")

\* path.extname: the loop from the end of the string.  st = [startDot,
\* startPart, end, matchedSlash, preDotState, stop]; indices are 0-based as
\* in the source of the path module
ExtStep(path, k, st) ==
    IF path[k + 1] = "/"
    THEN IF ~st.matchedSlash
         THEN [st EXCEPT !.startPart = k + 1, !.stop = TRUE]
         ELSE st
    ELSE LET s1 == IF st.end = -1
                   THEN [st EXCEPT !.matchedSlash = FALSE, !.end = k + 1]
                   ELSE st
         IN IF path[k + 1] = "."
            THEN IF s1.startDot = -1 THEN [s1 EXCEPT !.startDot = k]
                 ELSE IF s1.preDotState # 1 THEN [s1 EXCEPT !.preDotState = 1]
                 ELSE s1
            ELSE IF s1.startDot # -1 THEN [s1 EXCEPT !.preDotState = -1]
                 ELSE s1

RECURSIVE ExtScan(_, _, _)
ExtScan(path, k, st) ==
    IF k < 0 \/ st.stop THEN st ELSE ExtScan(path, k - 1, ExtStep(path, k, st))

Extname(path) ==
    LET st == ExtScan(path, Len(path) - 1,
                      [startDot |-> -1, startPart |-> 0, end |-> -1,
                       matchedSlash |-> TRUE, preDotState |-> 0, stop |-> FALSE])
    IN IF \/ st.startDot = -1
          \/ st.end = -1
          \/ st.preDotState = 0
          \/ (st.preDotState = 1 /\ st.startDot = st.end - 1
                                 /\ st.startDot = st.startPart + 1)
       THEN <<>>
       ELSE SubSeq(path, st.startDot + 1, st.end)

\* path.dirname of an absolute, normalized path
Dirname(p) ==
    LET segs == NormalizeSegs(Split(p, "/"), <<>>)
    IN IF Len(segs) <= 1 THEN <<"/">>
       ELSE <<"/">> \o Join(SubSeq(segs, 1, Len(segs) - 1), "/")

----------------------------------------------------------------------------
(* parseTree                                                               *)

\* text.split("\n").filter((l) => l.trim().length > 0)
NonBlankLines(t) == SelectSeq(Split(t, "\n"), LAMBDA l : Len(Trim(l)) > 0)

\* the first forEach of revision A: the minimum non-zero match of /^[\s│]+/,
\* 2 when there is none
RECURSIVE MinIndent(_, _)
MinIndent(ls, unit) ==
    IF Len(ls) = 0 THEN unit
    ELSE LET m == LeadingRun(Head(ls), UnitClass)
         IN MinIndent(Tail(ls),
                      IF m > 0 /\ (unit = 0 \/ m < unit) THEN m ELSE unit)

DefaultIndentUnit == 2

DetectIndentUnit(ls) ==
    LET u == MinIndent(ls, 0) IN IF u = 0 THEN DefaultIndentUnit ELSE u

\* const depth = indentMatch ? indentMatch[0].length : 0
LineDepth(line) == LeadingRun(line, IndentClass)

\* const name = line.replace(/[│├──└──]/g, "").trim()
LineName(line) == Trim(RemoveAll(line, Glyphs))

\* the condition of the while loop, on the depth of the top of the stack
ShouldPopStrict(topDepth, depth) == topDepth > depth

ShouldPop(topDepth, depth) == topDepth >= depth

RECURSIVE PopWhile(_, _, _)
PopWhile(stk, res, depth) ==
    IF Len(stk) > 0 /\ ShouldPop(res[stk[Len(stk)]].depth, depth)
    THEN PopWhile(SubSeq(stk, 1, Len(stk) - 1), res, depth)
    ELSE stk

\* revision A, lines 69-70
IsFileNoDotCheck(name) == ~EndsWith(name, "/")

IsFileA(name) ==
    ~EndsWith(name, "/") /\ (Extname(name) # <<>> \/ Includes(name, "."))

\* revision B, line 253
IsFileB(name) == Extname(name) # <<>>

\* name.replace(/\/$/, "")
StripSlash(name) ==
    IF EndsWith(name, "/") THEN SubSeq(name, 1, Len(name) - 1) ELSE name

MakeNode(v, name, currentPath, depth) ==
    IF v = "A"
    THEN [name |-> StripSlash(name), path |-> currentPath, depth |-> depth,
          isFile |-> IsFileA(name)]
    ELSE [name |-> name, path |-> currentPath, depth |-> depth,
          isFile |-> IsFileB(name)]

\* if (!name) return;
SkipsLineNever(name) == FALSE

SkipsLine(name) == Len(name) = 0

\* lines 63-64, with the bottom of the stack read in place of its top
ParentPathBottom(stk, res, base) ==
    IF Len(stk) > 0 THEN res[stk[1]].path ELSE base

\* lines 63-64: the path of the top of the stack, or baseDir
ParentPath(stk, res, base) ==
    IF Len(stk) > 0 THEN res[stk[Len(stk)]].path ELSE base

\* one call of the callback of the second forEach, on the state
\* st = [results, stack]
ParseLine(v, st, line, base) ==
    LET depth == LineDepth(line)
        name == LineName(line)
    IN IF SkipsLine(name) THEN st
       ELSE LET stk == PopWhile(st.stack, st.results, depth)
                parentPath == ParentPath(stk, st.results, base)
                node == MakeNode(v, name, Resolve(parentPath, name), depth)
            IN [results |-> Append(st.results, node),
                stack |-> Append(stk, Len(st.results) + 1)]

RECURSIVE ParseLines(_, _, _, _)
ParseLines(v, st, ls, base) ==
    IF Len(ls) = 0 THEN st
    ELSE ParseLines(v, ParseLine(v, st, Head(ls), base), Tail(ls), base)

\* parseTree(text, baseDir): the returned results
ParseTree(v, t, base) ==
    ParseLines(v, [results |-> <<>>, stack |-> <<>>], NonBlankLines(t), base).results

----------------------------------------------------------------------------
(* Commands.format                                                         *)

BarIndent == <<VBAR, " ", " ", " ">>
TeePrefix == <<TEE, DASH, DASH, " ">>

\* revision A, lines 127-135
FormatLineA(n, nodes, output) ==
    LET count == Cardinality({k \in 1..Len(nodes) : StartsWith(n.path, nodes[k].path)})
        indent == Repeat(BarIndent, Max(0, count - 2))
        prefix == IF n.path = Resolve(output, n.name) THEN <<>>
                  ELSE indent \o TeePrefix
    IN prefix \o n.name

\* revision B, lines 305-311; repeat() truncates its fractional count
FormatLineB(n) ==
    LET prefix == IF n.depth = 0 THEN <<>>
                  ELSE Repeat(BarIndent, Max(0, (n.depth \div 4) - 1)) \o TeePrefix
    IN prefix \o n.name

FormatLines(v, nodes, output) ==
    [k \in 1..Len(nodes) |->
        IF v = "A" THEN FormatLineA(nodes[k], nodes, output) ELSE FormatLineB(nodes[k])]

----------------------------------------------------------------------------
(* Inputs of the parser specification                                      *)

MaxLines == 3

\* the tree of the README-style scenario: app/, src/, index.js, README.md
\* with two spaces of indentation per level
ScenarioLines ==
    << <<"a", "p", "p", "/">>,
       <<" ", " ", "s", "r", "c", "/">>,
       <<" ", " ", " ", " ", "i", "n", "d", "e", "x", ".", "j", "s">>,
       <<" ", " ", "R", "E", "A", "D", "M", "E", ".", "m", "d">> >>

ScenarioText == Join(ScenarioLines, "\n")

WorkDir == <<"/", "w", "o", "r", "k">>

\* the lines the generated texts are made of: a blank line, a line of
\* glyphs only, and labels at depths 0, 2 and 4 with and without trailing
\* slash, dot and glyphs
LineChoices ==
    { <<" ", " ">>,
      <<VBAR, " ">>,
      <<"a", "/">>,
      <<"b">>,
      <<" ", " ", "c", ".", "d">>,
      <<" ", " ", "m", ".", "n", "/">>,
      <<" ", " ", " ", " ", "e">>,
      <<TEE, DASH, DASH, " ", "f", ".", "g">> }

InputTexts ==
    {ScenarioText} \cup
    UNION { {Join(ls, "\n") : ls \in [1..n -> LineChoices]} : n \in 1..MaxLines }

NoFlags == [cmd |-> "none", force |-> FALSE, verbose |-> FALSE,
            source |-> <<>>, hasSource |-> FALSE, output |-> <<".">>]

NoPrev == [cmd |-> "none", text |-> <<>>, output |-> <<>>, exitCode |-> -1,
           error |-> FALSE]

\* the state before parseTree is called by the format command
Init ==
    /\ variant \in {"A", "B"}
    /\ text \in InputTexts
    /\ baseDir = WorkDir
    /\ lines = <<>>
    /\ indentUnit = 0
    /\ i = 1
    /\ results = <<>>
    /\ stack = <<>>
    /\ out = <<>>
    /\ pc = "parse_begin"
    /\ fs = <<>>
    /\ flags = NoFlags
    /\ j = 1
    /\ log = <<>>
    /\ exitCode = -1
    /\ runs = 0
    /\ prev = NoPrev

\* lines 38-51: split, filter, and (revision A) the indent-unit pass
ParseBegin ==
    /\ pc = "parse_begin"
    /\ lines' = NonBlankLines(text)
    /\ indentUnit' = IF variant = "A" THEN DetectIndentUnit(NonBlankLines(text)) ELSE 0
    /\ i' = 1
    /\ results' = <<>>
    /\ stack' = <<>>
    /\ pc' = "parse_lines"
    /\ UNCHANGED <<variant, text, baseDir, out>>
    /\ UNCHANGED cliVars

\* lines 53-80: the callback of lines.forEach on lines[i]
ParseLineStep ==
    /\ pc = "parse_lines"
    /\ i <= Len(lines)
    /\ LET st == ParseLine(variant, [results |-> results, stack |-> stack],
                           lines[i], baseDir)
       IN /\ results' = st.results
          /\ stack' = st.stack
    /\ i' = i + 1
    /\ UNCHANGED <<variant, text, baseDir, lines, indentUnit, out, pc>>
    /\ UNCHANGED cliVars

\* line 81: return results
ParseReturn ==
    /\ pc = "parse_lines"
    /\ i > Len(lines)
    /\ pc' = "parsed"
    /\ UNCHANGED parserVars
    /\ UNCHANGED cliVars

\* Commands.format after parseTree returned: one console.log per node
FormatNodes ==
    /\ pc = "parsed"
    /\ out' = FormatLines(variant, results, baseDir)
    /\ pc' = "formatted"
    /\ UNCHANGED <<variant, text, baseDir, lines, indentUnit, i, results, stack>>
    /\ UNCHANGED cliVars

Next == ParseBegin \/ ParseLineStep \/ ParseReturn \/ FormatNodes

Spec == Init /\ [][Next]_vars

----------------------------------------------------------------------------
(* The filesystem as fs.existsSync, fs.mkdirSync(p, {recursive: true}),    *)
(* fs.writeFileSync(p, "") and fs.readFileSync see it                      *)

Root == <<"/">>

Exists(f, p) == p \in DOMAIN f

IsDir(f, p) == p \in DOMAIN f /\ f[p].kind = "dir"

IsRegular(f, p) == p \in DOMAIN f /\ f[p].kind = "file"

RECURSIVE SelfAndAncestors(_)
SelfAndAncestors(p) ==
    IF p = Root THEN {Root} ELSE {p} \cup SelfAndAncestors(Dirname(p))

\* mkdirSync throws EEXIST/ENOTDIR when the path or one of its ancestors is
\* a regular file
MkdirThrows(f, p) == \E a \in SelfAndAncestors(p) : IsRegular(f, a)

DirEntry == [kind |-> "dir", content |-> <<>>]

MkdirP(f, p) ==
    [q \in DOMAIN f \cup SelfAndAncestors(p) |-> IF q \in DOMAIN f THEN f[q] ELSE DirEntry]

\* writeFileSync throws EISDIR on a directory, ENOENT/ENOTDIR when the
\* parent is not a directory
WriteThrows(f, p) == IsDir(f, p) \/ ~IsDir(f, Dirname(p))

WriteFileKeep(f, p) == f

\* fs.writeFileSync(p, "")
WriteFile(f, p) ==
    [q \in DOMAIN f \cup {p} |-> IF q = p THEN [kind |-> "file", content |-> <<>>] ELSE f[q]]

----------------------------------------------------------------------------
(* The command line: main, getInput, Commands                              *)

MaxRuns == 2

TreeFileName == <<"t", ".", "t", "x", "t">>

TreeFilePath == Resolve(<<".">>, TreeFileName)

OutputChoices == { <<".">>, <<"o", "u", "t">> }

\* the trees given to the command line: the scenario, a lone directory, a
\* file with a child, a dotted directory with a child, a file listed twice,
\* a lone file
CliTrees ==
    { ScenarioText,
      <<"b">>,
      <<"c", ".", "d", "\n", " ", " ", "e">>,
      <<"m", ".", "n", "/", "\n", " ", " ", "c", ".", "d">>,
      <<"c", ".", "d", "\n", "c", ".", "d">>,
      <<"c", ".", "d">> }

\* the working directory, an empty output directory, and the tree file
InitFs(tree) ==
    LET dirs == {Root, Cwd, Resolve(<<".">>, <<"o", "u", "t">>)}
    IN [q \in dirs \cup {TreeFilePath} |->
           IF q = TreeFilePath THEN [kind |-> "file", content |-> tree] ELSE DirEntry]

Commands == {"create", "validate", "dry-run", "minify", "format", "help"}

Entry(level, what, arg) == [level |-> level, what |-> what, arg |-> arg]

ErrorReported == \E k \in 1..Len(log) : log[k].level = "error"

CliInit ==
    /\ variant \in {"A", "B"}
    /\ text = <<>>
    /\ baseDir = <<>>
    /\ lines = <<>>
    /\ indentUnit = 0
    /\ i = 1
    /\ results = <<>>
    /\ stack = <<>>
    /\ out = <<>>
    /\ pc = "shell"
    /\ \E tree \in CliTrees : fs = InitFs(tree)
    /\ \E o \in OutputChoices : flags = [NoFlags EXCEPT !.output = o]
    /\ j = 1
    /\ log = <<>>
    /\ exitCode = -1
    /\ runs = 0
    /\ prev = NoPrev

\* the source argument: none, the tree file, or the tree itself as a raw
\* string
SourceChoices ==
    { [hasSource |-> FALSE, source |-> <<>>],
      [hasSource |-> TRUE, source |-> TreeFileName] }
    \cup (IF IsRegular(fs, TreeFilePath) /\ Len(fs[TreeFilePath].content) > 0
          THEN {[hasSource |-> TRUE, source |-> fs[TreeFilePath].content]}
          ELSE {})

\* lines 16-24 and 161: a new process is started with a command line; the
\* output directory stays the one of the behaviour
StartRun ==
    /\ pc \in {"shell", "exited"}
    /\ runs < MaxRuns
    /\ runs' = runs + 1
    /\ prev' = IF runs = 0 THEN NoPrev
               ELSE [cmd |-> flags.cmd, text |-> text, output |-> flags.output,
                     exitCode |-> exitCode, error |-> ErrorReported]
    /\ \E c \in Commands, f \in BOOLEAN, v \in BOOLEAN, s \in SourceChoices :
          /\ (c # "create") => (~f /\ ~v)
          /\ (c = "help") => ~s.hasSource
          /\ flags' = [cmd |-> c, force |-> f, verbose |-> v, source |-> s.source,
                       hasSource |-> s.hasSource, output |-> flags.output]
          /\ pc' = IF c = "help" THEN "usage" ELSE "get_input"
    /\ text' = <<>>
    /\ baseDir' = <<>>
    /\ lines' = <<>>
    /\ indentUnit' = 0
    /\ i' = 1
    /\ results' = <<>>
    /\ stack' = <<>>
    /\ out' = <<>>
    /\ j' = 1
    /\ log' = <<>>
    /\ exitCode' = -1
    /\ UNCHANGED <<variant, fs>>

\* the catch of main (lines 192-194): Log.error(e.message), and main
\* returns, so the process ends with exit code 0
Thrown(msg) ==
    /\ log' = Append(log, Entry("error", msg, <<>>))
    /\ exitCode' = 0
    /\ pc' = "exited"

\* getInput (lines 139-144), awaited by every command
GetInput ==
    /\ pc = "get_input"
    /\ IF ~flags.hasSource
       THEN Thrown("No input provided") /\ UNCHANGED text
       ELSE LET p == Resolve(<<".">>, flags.source)
            IN IF Exists(fs, p)
               THEN IF IsDir(fs, p)
                    THEN Thrown("EISDIR") /\ UNCHANGED text
                    ELSE /\ text' = fs[p].content
                         /\ pc' = "parse"
                         /\ UNCHANGED <<log, exitCode>>
               ELSE /\ text' = flags.source
                    /\ pc' = "parse"
                    /\ UNCHANGED <<log, exitCode>>
    /\ UNCHANGED <<variant, baseDir, lines, indentUnit, i, results, stack, out,
                   fs, flags, j, runs, prev>>

HeaderOf(c) ==
    IF c = "create" THEN "Manifesting Structure"
    ELSE IF c = "validate" THEN "Validating Integrity"
    ELSE "Dry Run Preview"

\* parseTree(content, flags.output) as called by every command, and the
\* Log.header that follows it in create, validate and dry-run
Parse ==
    /\ pc = "parse"
    /\ baseDir' = flags.output
    /\ lines' = NonBlankLines(text)
    /\ indentUnit' = IF variant = "A" THEN DetectIndentUnit(NonBlankLines(text)) ELSE 0
    /\ i' = Len(NonBlankLines(text)) + 1
    /\ LET st == ParseLines(variant, [results |-> <<>>, stack |-> <<>>],
                            NonBlankLines(text), flags.output)
       IN results' = st.results /\ stack' = st.stack
    /\ log' = IF flags.cmd \in {"create", "validate", "dry-run"}
              THEN Append(log, Entry("header", HeaderOf(flags.cmd), <<>>))
              ELSE log
    /\ pc' = flags.cmd
    /\ UNCHANGED <<variant, text, out, fs, flags, j, exitCode, runs, prev>>

\* line 94: an existing path is left alone unless --force is given
SkipsExistingNever(exists, force) == FALSE

SkipsExisting(exists, force) == exists /\ ~force

\* Commands.create, lines 91-104: the callback of nodes.forEach on node j
CreateNode ==
    /\ pc = "create"
    /\ j <= Len(results)
    /\ LET n == results[j]
       IN IF n.isFile
          THEN IF MkdirThrows(fs, Dirname(n.path))
               THEN Thrown("mkdir") /\ UNCHANGED <<fs, j>>
               ELSE LET f1 == MkdirP(fs, Dirname(n.path))
                    IN IF SkipsExisting(Exists(f1, n.path), flags.force)
                       THEN /\ fs' = f1
                            /\ log' = IF flags.verbose
                                      THEN Append(log, Entry("warn", "Skipped", n.name))
                                      ELSE log
                            /\ j' = j + 1
                            /\ UNCHANGED <<pc, exitCode>>
                       ELSE IF WriteThrows(f1, n.path)
                       THEN Thrown("write") /\ fs' = f1 /\ UNCHANGED j
                       ELSE /\ fs' = WriteFile(f1, n.path)
                            /\ log' = Append(log, Entry("step", "Created", n.name))
                            /\ j' = j + 1
                            /\ UNCHANGED <<pc, exitCode>>
          ELSE IF MkdirThrows(fs, n.path)
               THEN Thrown("mkdir") /\ UNCHANGED <<fs, j>>
               ELSE /\ fs' = MkdirP(fs, n.path)
                    /\ log' = IF flags.verbose
                              THEN Append(log, Entry("step", "Dir", n.name))
                              ELSE log
                    /\ j' = j + 1
                    /\ UNCHANGED <<pc, exitCode>>
    /\ UNCHANGED <<parserVars, flags, runs, prev>>

\* line 105, and the return of main
CreateDone ==
    /\ pc = "create"
    /\ j > Len(results)
    /\ log' = Append(log, Entry("success", "Creation complete", <<>>))
    /\ exitCode' = 0
    /\ pc' = "exited"
    /\ UNCHANGED <<parserVars, fs, flags, j, runs, prev>>

Missing(nodes, f) == SelectSeq(nodes, LAMBDA n : ~Exists(f, n.path))

\* Commands.validate, lines 111-117
Validate ==
    /\ pc = "validate"
    /\ LET missing == Missing(results, fs)
       IN IF Len(missing) = 0
          THEN /\ log' = Append(log, Entry("success", "All items present", <<>>))
               /\ exitCode' = 0
          ELSE /\ log' = Append(log, Entry("error", "Missing items", Len(missing)))
                         \o [k \in 1..Len(missing) |-> Entry("step", "Path", missing[k].path)]
               /\ exitCode' = 1
    /\ pc' = "exited"
    /\ UNCHANGED <<parserVars, fs, flags, j, runs, prev>>

\* Commands.minify, lines 121-122
Minify ==
    /\ pc = "minify"
    /\ out' = [k \in 1..Len(results) |-> results[k].path]
    /\ exitCode' = 0
    /\ pc' = "exited"
    /\ UNCHANGED <<variant, text, baseDir, lines, indentUnit, i, results, stack,
                   fs, flags, j, log, runs, prev>>

\* Commands.format, lines 126-135
Format ==
    /\ pc = "format"
    /\ out' = FormatLines(variant, results, flags.output)
    /\ exitCode' = 0
    /\ pc' = "exited"
    /\ UNCHANGED <<variant, text, baseDir, lines, indentUnit, i, results, stack,
                   fs, flags, j, log, runs, prev>>

\* main, lines 163-168
DryRun ==
    /\ pc = "dry-run"
    /\ out' = [k \in 1..Len(results) |->
                  <<IF results[k].isFile THEN "file" ELSE "dir", results[k].path>>]
    /\ exitCode' = 0
    /\ pc' = "exited"
    /\ UNCHANGED <<variant, text, baseDir, lines, indentUnit, i, results, stack,
                   fs, flags, j, log, runs, prev>>

\* main, lines 171-190: an unknown command prints the usage text
Usage ==
    /\ pc = "usage"
    /\ out' = <<"usage">>
    /\ exitCode' = 0
    /\ pc' = "exited"
    /\ UNCHANGED <<variant, text, baseDir, lines, indentUnit, i, results, stack,
                   fs, flags, j, log, runs, prev>>

UserData == <<"x">>

\* between two processes the user changes the content of a file
UserEdit ==
    /\ pc = "exited"
    /\ \E p \in DOMAIN fs :
          /\ fs[p].kind = "file"
          /\ fs[p].content # UserData
          /\ fs' = [fs EXCEPT ![p].content = UserData]
    /\ UNCHANGED <<parserVars, pc, flags, j, log, exitCode, runs, prev>>

CliNext ==
    \/ StartRun
    \/ GetInput
    \/ Parse
    \/ CreateNode
    \/ CreateDone
    \/ Validate
    \/ Minify
    \/ Format
    \/ DryRun
    \/ Usage
    \/ UserEdit

SpecCli == CliInit /\ [][CliNext]_vars

----------------------------------------------------------------------------
(* Properties of parseTree and format (specification Spec)                 *)

\* the lines processed so far that yield a label, and the label of the
\* k-th of them
EmittingLines == SelectSeq(SubSeq(lines, 1, i - 1), LAMBDA l : LineName(l) # <<>>)

LabelOf(k) == LineName(EmittingLines[k])

\* index of the nearest preceding node of strictly smaller depth, 0 if none
NearestShallower(k) ==
    LET S == {m \in 1..(k - 1) : results[m].depth < results[k].depth}
    IN IF S = {} THEN 0 ELSE CHOOSE m \in S : \A q \in S : q <= m

\* C1: every emitted node's path is resolve(P, label), P being the path of
\* the nearest preceding node of strictly smaller depth, or baseDir when
\* there is none
C1_PathFromNearestShallower ==
    /\ Len(results) = Len(EmittingLines)
    /\ \A k \in 1..Len(results) :
          LET p == NearestShallower(k)
          IN results[k].path =
                Resolve(IF p = 0 THEN baseDir ELSE results[p].path, LabelOf(k))

\* a dedent that skips the node just before it and lands under an earlier one
C1_Witness ==
    /\ Len(results) >= 3
    /\ results[3].depth < results[2].depth
    /\ NearestShallower(3) = 1

\* the nodes the scenario names: path, nesting level, kind
ScenarioExpected ==
    << [path |-> WorkDir \o <<"/", "a", "p", "p">>, depth |-> 0, isFile |-> FALSE],
       [path |-> WorkDir \o <<"/", "a", "p", "p", "/", "s", "r", "c">>,
        depth |-> 1, isFile |-> FALSE],
       [path |-> WorkDir \o <<"/", "a", "p", "p", "/", "s", "r", "c", "/",
                               "i", "n", "d", "e", "x", ".", "j", "s">>,
        depth |-> 2, isFile |-> TRUE],
       [path |-> WorkDir \o <<"/", "a", "p", "p", "/",
                               "R", "E", "A", "D", "M", "E", ".", "m", "d">>,
        depth |-> 1, isFile |-> TRUE] >>

\* C2: the four-line scenario tree with baseDir /work yields /work/app
\* (Directory, depth 0), /work/app/src (Directory, depth 1),
\* /work/app/src/index.js (File, depth 2), /work/app/README.md (File, depth 1)
C2_ScenarioNodes ==
    (pc = "parsed" /\ text = ScenarioText /\ baseDir = WorkDir) =>
        [k \in 1..Len(results) |->
            [path |-> results[k].path, depth |-> results[k].depth,
             isFile |-> results[k].isFile]] = ScenarioExpected

\* the lines of the text that are not blank and keep a label
LabelledRawLines ==
    SelectSeq(Split(text, "\n"),
              LAMBDA l : Len(Trim(l)) > 0 /\ Trim(RemoveAll(l, Glyphs)) # <<>>)

\* C3: parseTree returns one node per line that is not blank and whose
\* glyph-stripped, trimmed content is not empty, in the order of those lines
C3_OneNodePerLabelledLine ==
    pc \in {"parsed", "formatted"} =>
        /\ Len(results) = Len(LabelledRawLines)
        /\ \A k \in 1..Len(results) :
              /\ StripSlash(results[k].name) =
                    StripSlash(Trim(RemoveAll(LabelledRawLines[k], Glyphs)))
              /\ results[k].depth = LeadingRun(LabelledRawLines[k], IndentClass)

\* a text with a blank line and a glyph-only line dropped, and a node kept
C3_Witness ==
    /\ pc = "parsed"
    /\ Len(results) >= 1
    /\ Len(lines) > Len(results)
    /\ Len(Split(text, "\n")) > Len(lines)

\* C4: a label ending in "/" is classified Directory, dot or no dot
C4_TrailingSlashIsDirectory ==
    \A k \in 1..Len(results) :
        (k <= Len(EmittingLines) /\ EndsWith(LabelOf(k), "/")) => ~results[k].isFile

\* a label such as index.js: a dot after the first character of the last
\* segment, followed by characters other than "." and "/"
HasPlainExtension(l) ==
    \E d \in 2..(Len(l) - 1) :
        /\ l[d] = "."
        /\ l[d - 1] \notin {"/", "."}
        /\ \A q \in (d + 1)..Len(l) : l[q] \notin {"/", "."}

\* C5: a label with no trailing "/" and no "." is classified Directory, and a
\* label with no trailing "/" that has an extension is classified File
C5_DotHeuristic ==
    \A k \in 1..Len(results) :
        k <= Len(EmittingLines) =>
            LET l == LabelOf(k)
            IN /\ (~EndsWith(l, "/") /\ ~Includes(l, ".")) => ~results[k].isFile
               /\ (~EndsWith(l, "/") /\ HasPlainExtension(l)) => results[k].isFile

C5_Witness ==
    /\ pc = "parsed"
    /\ \E k \in 1..Len(results) :
          ~EndsWith(LabelOf(k), "/") /\ ~Includes(LabelOf(k), ".") /\ ~results[k].isFile
    /\ \E k \in 1..Len(results) :
          HasPlainExtension(LabelOf(k)) /\ results[k].isFile

\* a well-formed tree with uniform indentation: every line has a label, the
\* first is at depth 0, every depth is a multiple of one unit, and no line is
\* more than one unit deeper than the line before it
UniformTree(ls) ==
    /\ Len(ls) > 0
    /\ \A k \in 1..Len(ls) : LineName(ls[k]) # <<>>
    /\ LineDepth(ls[1]) = 0
    /\ \E u \in 1..8 :
          /\ \A k \in 1..Len(ls) : LineDepth(ls[k]) % u = 0
          /\ \A k \in 2..Len(ls) : LineDepth(ls[k]) <= LineDepth(ls[k - 1]) + u

Shape(nodes) ==
    [k \in 1..Len(nodes) |->
        [depth |-> nodes[k].depth, isFile |-> nodes[k].isFile,
         name |-> StripSlash(nodes[k].name)]]

\* C6: for a well-formed tree with uniform indentation, parsing the output
\* of format again yields the depth, kind and name of every node of the
\* first parse
C6_FormatRoundTrip ==
    (pc = "formatted" /\ UniformTree(lines)) =>
        Shape(ParseTree(variant, Join(out, "\n"), baseDir)) = Shape(results)

\* C10, the state part: the depths on the stack increase strictly from
\* bottom to top, the stack is a subsequence of the results in their order,
\* and its top is the node emitted last
C10_StackShape ==
    /\ \A k \in 1..Len(stack) : stack[k] \in 1..Len(results)
    /\ \A k \in 1..(Len(stack) - 1) :
          /\ stack[k] < stack[k + 1]
          /\ results[stack[k]].depth < results[stack[k + 1]].depth
    /\ (Len(results) = 0) = (Len(stack) = 0)
    /\ Len(results) > 0 => stack[Len(stack)] = Len(results)

\* C10, the step part: a line whose label is empty changes neither
C10_EmptyLabelStep ==
    (pc = "parse_lines" /\ i <= Len(lines) /\ LineName(lines[i]) = <<>> /\ i' = i + 1)
        => UNCHANGED <<stack, results>>

\* C10: after each line the stack's depths increase strictly, its entries
\* are emitted nodes in result order with the last emitted node on top, and
\* a line with an empty label leaves stack and results unchanged
C10_StackDiscipline == [](C10_StackShape) /\ [][C10_EmptyLabelStep]_vars

\* a glyph-only line was processed and two ancestors are open
C10_Witness ==
    /\ pc = "parse_lines"
    /\ \E k \in 1..(i - 1) : LineName(lines[k]) = <<>>
    /\ Len(stack) >= 2

----------------------------------------------------------------------------
(* Properties of the command line (specification SpecCli)                  *)

Logged(level, what) ==
    \E k \in 1..Len(log) : log[k].level = level /\ log[k].what = what

\* this process is a create that follows a create of the same tree into the
\* same output directory
CreateAgain ==
    /\ runs >= 2
    /\ flags.cmd = "create"
    /\ prev.cmd = "create"
    /\ prev.text = text
    /\ prev.output = flags.output

\* the forEach of create is at a File node whose path is an existing file
AtExistingFile ==
    /\ pc = "create"
    /\ j <= Len(results)
    /\ results[j].isFile
    /\ IsRegular(fs, results[j].path)
    /\ j' = j + 1

C7_NoWriteWithoutForce ==
    (pc = "create" /\ ~flags.force) =>
        \A p \in DOMAIN fs :
            fs[p].kind = "file" => (p \in DOMAIN fs' /\ fs'[p] = fs[p])

C7_SkipIsReported ==
    (AtExistingFile /\ ~flags.force) =>
        log' = Append(log, Entry("warn", "Skipped", results[j].name))

C7_SkipIsReportedWhenVerbose ==
    (AtExistingFile /\ ~flags.force) =>
        log' = IF flags.verbose
               THEN Append(log, Entry("warn", "Skipped", results[j].name))
               ELSE log

C7_ForceOverwrites ==
    (AtExistingFile /\ flags.force) =>
        /\ fs'[results[j].path] = [kind |-> "file", content |-> <<>>]
        /\ log' = Append(log, Entry("step", "Created", results[j].name))

\* C7 as claimed: a second create without --force writes to no existing
\* file and reports each existing file as skipped; with --force an existing
\* file is overwritten
C7_SecondCreateAsClaimed ==
    [][CreateAgain =>
          (C7_NoWriteWithoutForce /\ C7_SkipIsReported /\ C7_ForceOverwrites)]_vars

\* C7 as amended: a second create without --force writes to no existing
\* file and reports each existing file it visits as skipped when --verbose
\* is given (and reports nothing for it otherwise); with --force an existing
\* file is overwritten
C7_SecondCreate ==
    [][CreateAgain =>
          (C7_NoWriteWithoutForce /\ C7_SkipIsReportedWhenVerbose
             /\ C7_ForceOverwrites)]_vars

\* a second create without --force and with --verbose has ended, it reported
\* a skipped file, and a file of the tree still holds what the user wrote
\* into it after the first create
C7_Witness ==
    /\ pc = "exited"
    /\ CreateAgain
    /\ ~flags.force
    /\ flags.verbose
    /\ Logged("warn", "Skipped")
    /\ \E k \in 1..Len(results) :
          /\ results[k].isFile
          /\ IsRegular(fs, results[k].path)
          /\ fs[results[k].path].content = UserData

\* the filesystem after create of the scenario tree into base: the initial
\* entries, 2 directories and 2 empty files
ScenarioFs(base) ==
    LET app == Resolve(base, <<"a", "p", "p">>)
        src == Resolve(app, <<"s", "r", "c">>)
        index == Resolve(src, <<"i", "n", "d", "e", "x", ".", "j", "s">>)
        readme == Resolve(app, <<"R", "E", "A", "D", "M", "E", ".", "m", "d">>)
        init == InitFs(ScenarioText)
    IN [q \in DOMAIN init \cup {app, src, index, readme} |->
           IF q \in DOMAIN init THEN init[q]
           ELSE IF q \in {app, src} THEN [kind |-> "dir", content |-> <<>>]
           ELSE [kind |-> "file", content |-> <<>>]]

\* C8: create of the scenario tree into an empty output directory makes
\* exactly 2 directories and 2 empty files, and a validate of the same tree
\* and output directory that follows a create which completed without error
\* finds nothing missing and does not fail
C8_CreateThenValidate ==
    /\ (pc = "create" /\ j > Len(results) /\ runs = 1 /\ text = ScenarioText) =>
          /\ fs = ScenarioFs(Resolve(<<".">>, flags.output))
          /\ Cardinality(DOMAIN fs \ DOMAIN InitFs(ScenarioText)) = 4
          /\ ~ErrorReported
    /\ (/\ pc = "exited"
        /\ flags.cmd = "validate"
        /\ Logged("header", "Validating Integrity")
        /\ prev.cmd = "create"
        /\ ~prev.error
        /\ prev.text = text
        /\ prev.output = flags.output) =>
          /\ Missing(results, fs) = <<>>
          /\ Logged("success", "All items present")
          /\ ~ErrorReported
          /\ exitCode = 0

\* validate of the scenario tree right after its create has ended
C8_Witness ==
    /\ pc = "exited"
    /\ flags.cmd = "validate"
    /\ prev.cmd = "create"
    /\ ~prev.error
    /\ text = ScenarioText
    /\ prev.text = text
    /\ Len(results) = 4
    /\ Logged("success", "All items present")

\* C9: a process that reported an error exits non-zero and a process that
\* exits non-zero reported an error; without an input source a command
\* reports an error, exits non-zero and leaves the filesystem alone
C9_ErrorIffNonZeroExit ==
    pc = "exited" =>
        /\ ErrorReported <=> (exitCode # 0)
        /\ (~flags.hasSource /\ flags.cmd # "help") =>
              /\ ErrorReported
              /\ exitCode # 0
              /\ runs = 1 => DOMAIN fs = DOMAIN InitFs(<<>>)

====
